---- MODULE Spec2Model ----
(***************************************************************************)
(* Model of upload_image_and_add_to_slide_v2.py: the orchestrator          *)
(* upload_image_and_add_to_slide (upload -> sign -> place -> delete) and   *)
(* the replace-or-create placement of add_image_to_slide, run by several   *)
(* invocations against one bucket and one page of one presentation.        *)
(*                                                                         *)
(* The two cloud services are not code of the repository.  They are        *)
(* modelled by their contract: an upload overwrites, a delete of a missing *)
(* object raises, a batch is applied in list order and atomically, object  *)
(* ids are unique on the page, createImage fetches its url when it is      *)
(* applied.  Besides these, every service call may raise for a reason of   *)
(* its own (credentials, network, quota): a "fault".  A call that raises   *)
(* has no effect.  The clock never steps backwards.                        *)
(***************************************************************************)
EXTENDS Integers, Sequences, FiniteSets, TLC

\* ------------------------------------------------------------------ bounds
NumInvocations == 2
MaxPageLen == 2
MaxTick == 1
MaxTime == 3

\* ------------------------------------------------------- program constants
emu4M == 4000000

Procs == 1..NumInvocations
ImageNames == {"a", "b"}
ElementIds == ImageNames \cup {"x"}
PageObjectId == "p1"
\* scaleX, scaleY, translateX, translateY: the caller's values, passed through
Transform == [scaleX |-> 2, scaleY |-> 2, translateX |-> 1100000, translateY |-> 0 - 500000]

VARIABLES
  pc,          \* position of each invocation of upload_image_and_add_to_slide
  image_name,  \* its image_file_name: bucket key and element id
  bucket,      \* blob names stored in the bucket
  page,        \* the page's elements, in order
  url,         \* the signed url each invocation holds
  page_info,   \* the response of pages().get() each invocation holds
  body,        \* the requests each invocation submitted to batchUpdate
  calls,       \* the service calls each invocation has made and how each ended
  now,         \* the clock
  t0,          \* time_image_becomes_accessible
  t1,          \* time_image_is_no_longer_accessible
  stamps,      \* when upload and sign returned, when delete began and returned
  page0,       \* the page before any invocation
  bucket0,     \* the bucket before any invocation
  overlap      \* whether two invocations have been under way at once

vars == <<pc, image_name, bucket, page, url, page_info, body, calls,
          now, t0, t1, stamps, page0, bucket0, overlap>>

\* ----------------------------------------------------------------- helpers
Range(s) == {s[i] : i \in 1..Len(s)}

RECURSIVE SelectIds(_, _)
\* the elements of pg whose id is in ids, in order
SelectIds(pg, ids) ==
  IF pg = <<>> THEN <<>>
  ELSE IF Head(pg).objectId \in ids
       THEN <<Head(pg)>> \o SelectIds(Tail(pg), ids)
       ELSE SelectIds(Tail(pg), ids)

IdsOf(pg) == {pg[i].objectId : i \in 1..Len(pg)}

CountId(pg, id) == Cardinality({i \in 1..Len(pg) : pg[i].objectId = id})

\* ------------------------------------------------------ object store
upload_blob(b, destination_blob_name) == b \cup {destination_blob_name}

generate_download_signed_url_v4(blob_name) ==
  [blob |-> blob_name, method |-> "GET", version |-> "v4"]

\* mutant: every blob of the bucket is deleted
delete_blob_all(b, blob_name) == {}

\* mutant: the blob is looked up and never deleted
delete_blob_skipped(b, blob_name) == b

delete_blob(b, blob_name) == b \ {blob_name}

\* ------------------------------------------------------ presentation service
\* pages().get(): a page without elements may come without the pageElements key
GetResponses(pg) ==
  LET full == [objectId |-> PageObjectId,
               pageElements |-> [k \in 1..Len(pg) |-> [objectId |-> pg[k].objectId]]]
  IN  IF pg = <<>> THEN {[objectId |-> PageObjectId], full} ELSE {full}

\* one request applied to a page; "error" when the service rejects it
ApplyRequest(pg, r, b, who) ==
  IF "deleteObject" \in DOMAIN r
  THEN IF r.deleteObject.objectId \in IdsOf(pg)
       THEN SelectIds(pg, IdsOf(pg) \ {r.deleteObject.objectId})
       ELSE "error"
  ELSE IF r.createImage.objectId \in IdsOf(pg) \/ r.createImage.url.blob \notin b
       THEN "error"
       ELSE Append(pg, [objectId |-> r.createImage.objectId, src |-> who])

RECURSIVE ApplyBatch(_, _, _, _)
\* batchUpdate: the requests in list order, all or nothing
ApplyBatch(pg, reqs, b, who) ==
  IF reqs = <<>> THEN pg
  ELSE LET one == ApplyRequest(pg, Head(reqs), b, who)
       IN  IF one = "error" THEN "error" ELSE ApplyBatch(one, Tail(reqs), b, who)

\* ------------------------------------------------------ add_image_to_slide
objects_on_page(info) ==
  IF "pageElements" \in DOMAIN info
  THEN [k \in 1..Len(info.pageElements) |-> info.pageElements[k].objectId]
  ELSE <<>>

\* mutant: the pre-existing copy is never deleted
DeleteRequestsNever(info, name) == <<>>

\* mutant: the check is whether the page has any element
DeleteRequestsIfAny(info, name) ==
  IF "pageElements" \in DOMAIN info /\ objects_on_page(info) # <<>>
  THEN <<[deleteObject |-> [objectId |-> name]]>>
  ELSE <<>>

\* mutant: the membership check is dropped
DeleteRequestsAlways(info, name) ==
  IF "pageElements" \in DOMAIN info
  THEN <<[deleteObject |-> [objectId |-> name]]>>
  ELSE <<>>

\* mutant: a delete request is filed for every element found on the page
DeleteRequestsAll(info, name) ==
  IF "pageElements" \in DOMAIN info /\ name \in Range(objects_on_page(info))
  THEN [k \in 1..Len(objects_on_page(info)) |->
          [deleteObject |-> [objectId |-> objects_on_page(info)[k]]]]
  ELSE <<>>

\* lines 109-116
DeleteRequests(info, name) ==
  IF "pageElements" \in DOMAIN info /\ name \in Range(objects_on_page(info))
  THEN <<[deleteObject |-> [objectId |-> name]]>>
  ELSE <<>>

CreateRequest(name, image_url) ==
  [createImage |->
    [objectId |-> name, url |-> image_url,
     elementProperties |->
       [pageObjectId |-> PageObjectId,
        size |-> [height |-> [magnitude |-> emu4M, unit |-> "EMU"],
                  width |-> [magnitude |-> emu4M, unit |-> "EMU"]],
        transform |-> Transform]]]

\* mutant: the createImage request is appended before the deleteObject request
requests_create_first(info, name, image_url) ==
  <<CreateRequest(name, image_url)>> \o DeleteRequests(info, name)

\* lines 100-141
requests(info, name, image_url) ==
  DeleteRequests(info, name) \o <<CreateRequest(name, image_url)>>

\* ------------------------------------------------------ orchestrator
\* mutant: an exception of add_image_to_slide is caught and the run goes on
AfterCallSwallow(call, raised) ==
  CASE call = "upload_blob" -> IF raised THEN "FAILED" ELSE "UPLOADED"
    [] call = "generate_download_signed_url_v4" -> IF raised THEN "FAILED" ELSE "URL_SIGNED"
    [] call = "get" -> IF raised THEN "PLACED" ELSE "PAGE_READ"
    [] call = "batchUpdate" -> "PLACED"
    [] call = "delete_blob" -> IF raised THEN "FAILED" ELSE "CLEANED_UP"

\* mutant: a call that raises is tried again
AfterCallRetry(call, raised) ==
  CASE call = "upload_blob" -> IF raised THEN "START" ELSE "UPLOADED"
    [] call = "generate_download_signed_url_v4" -> IF raised THEN "UPLOADED" ELSE "URL_SIGNED"
    [] call = "get" -> IF raised THEN "URL_SIGNED" ELSE "PAGE_READ"
    [] call = "batchUpdate" -> IF raised THEN "PAGE_READ" ELSE "PLACED"
    [] call = "delete_blob" -> IF raised THEN "PLACED" ELSE "CLEANED_UP"

\* where the invocation is after a call: an exception propagates uncaught
AfterCall(call, raised) ==
  IF raised THEN "FAILED"
  ELSE CASE call = "upload_blob" -> "UPLOADED"
         [] call = "generate_download_signed_url_v4" -> "URL_SIGNED"
         [] call = "get" -> "PAGE_READ"
         [] call = "batchUpdate" -> "PLACED"
         [] call = "delete_blob" -> "CLEANED_UP"

\* mutant: the clock is read before the url is generated
time_read_before_sign(before_sign, after_sign) == before_sign

\* time_image_becomes_accessible: read once the sign call has returned
time_image_becomes_accessible(before_sign, after_sign) == after_sign

\* time_image_is_no_longer_accessible: read once delete_blob has returned
time_image_is_no_longer_accessible(before_delete, after_delete) == after_delete

Active(p) == pc[p] \notin {"START", "CLEANED_UP", "FAILED"}

NoInfo == [objectId |-> "none"]
NoUrl == [blob |-> "none", method |-> "none", version |-> "none"]
NoStamps == [up_ret |-> 0, sign_ret |-> 0, del_call |-> 0, del_ret |-> 0]

RECURSIVE Pages(_)
\* the pages of at most n elements, pre-existing, with distinct ids
Pages(n) ==
  IF n = 0 THEN {<<>>}
  ELSE LET shorter == Pages(n - 1)
       IN  shorter \cup
           {Append(pg, [objectId |-> id, src |-> 0]) :
              pg \in {q \in shorter : Len(q) = n - 1}, id \in ElementIds}

\* invocations are interchangeable: their names are taken in a fixed order
NameRank(n) == IF n = "a" THEN 1 ELSE 2

DistinctIds(pg) == Cardinality(IdsOf(pg)) = Len(pg)

Init ==
  /\ pc = [p \in Procs |-> "START"]
  /\ image_name \in {f \in [Procs -> ImageNames] :
                       \A p, q \in Procs : p < q => NameRank(f[p]) <= NameRank(f[q])}
  /\ bucket \in SUBSET ImageNames
  /\ page \in {pg \in Pages(MaxPageLen) : DistinctIds(pg)}
  /\ url = [p \in Procs |-> NoUrl]
  /\ page_info = [p \in Procs |-> NoInfo]
  /\ body = [p \in Procs |-> <<>>]
  /\ calls = [p \in Procs |-> <<>>]
  /\ now = 0
  /\ t0 = [p \in Procs |-> 0]
  /\ t1 = [p \in Procs |-> 0]
  /\ stamps = [p \in Procs |-> NoStamps]
  /\ page0 = page
  /\ bucket0 = bucket
  /\ overlap = FALSE

\* a call by p that takes d and ends in outcome how: "ok" (it returned),
\* "rejected" (the service refused it) or "fault" (it raised for another reason)
Called(p, call, how, d) ==
  /\ now + d <= MaxTime
  /\ now' = now + d
  /\ calls' = [calls EXCEPT ![p] = Append(@, [call |-> call, outcome |-> how])]
  /\ pc' = [pc EXCEPT ![p] = AfterCall(call, how # "ok")]
  /\ UNCHANGED <<image_name, page0, bucket0>>

\* line 197: upload_blob
UploadOk(p, d) ==
  /\ pc[p] = "START"
  /\ Called(p, "upload_blob", "ok", d)
  /\ overlap' = (overlap \/ \E q \in Procs \ {p} : Active(q))
  /\ bucket' = upload_blob(bucket, image_name[p])
  /\ stamps' = [stamps EXCEPT ![p].up_ret = now']
  /\ UNCHANGED <<page, url, page_info, body, t0, t1>>

UploadFault(p, d) ==
  /\ pc[p] = "START"
  /\ Called(p, "upload_blob", "fault", d)
  /\ UNCHANGED <<bucket, page, url, page_info, body, t0, t1, stamps, overlap>>

\* lines 200-201: generate_download_signed_url_v4, then time.time()
SignOk(p, d) ==
  /\ pc[p] = "UPLOADED"
  /\ Called(p, "generate_download_signed_url_v4", "ok", d)
  /\ url' = [url EXCEPT ![p] = generate_download_signed_url_v4(image_name[p])]
  /\ t0' = [t0 EXCEPT ![p] = time_image_becomes_accessible(now, now')]
  /\ stamps' = [stamps EXCEPT ![p].sign_ret = now']
  /\ UNCHANGED <<bucket, page, page_info, body, t1, overlap>>

SignFault(p, d) ==
  /\ pc[p] = "UPLOADED"
  /\ Called(p, "generate_download_signed_url_v4", "fault", d)
  /\ UNCHANGED <<bucket, page, url, page_info, body, t0, t1, stamps, overlap>>

\* line 103: pages().get()
GetOk(p, d) ==
  /\ pc[p] = "URL_SIGNED"
  /\ Called(p, "get", "ok", d)
  /\ \E info \in GetResponses(page) : page_info' = [page_info EXCEPT ![p] = info]
  /\ UNCHANGED <<bucket, page, url, body, t0, t1, stamps, overlap>>

GetFault(p, d) ==
  /\ pc[p] = "URL_SIGNED"
  /\ Called(p, "get", "fault", d)
  /\ UNCHANGED <<bucket, page, url, page_info, body, t0, t1, stamps, overlap>>

\* lines 104-147: the requests are built and submitted
Submitted(p) == requests(page_info[p], image_name[p], url[p])

\* the service accepts the batch p is about to submit
BatchAccepted(p) == ApplyBatch(page, Submitted(p), bucket, p) # "error"

BatchOk(p, d) ==
  /\ pc[p] = "PAGE_READ"
  /\ BatchAccepted(p)
  /\ body' = [body EXCEPT ![p] = Submitted(p)]
  /\ page' = ApplyBatch(page, Submitted(p), bucket, p)
  /\ Called(p, "batchUpdate", "ok", d)
  /\ UNCHANGED <<bucket, url, page_info, t0, t1, stamps, overlap>>

BatchRejected(p, d) ==
  /\ pc[p] = "PAGE_READ"
  /\ ~BatchAccepted(p)
  /\ body' = [body EXCEPT ![p] = Submitted(p)]
  /\ Called(p, "batchUpdate", "rejected", d)
  /\ UNCHANGED <<bucket, page, url, page_info, t0, t1, stamps, overlap>>

BatchFault(p, d) ==
  /\ pc[p] = "PAGE_READ"
  /\ body' = [body EXCEPT ![p] = Submitted(p)]
  /\ Called(p, "batchUpdate", "fault", d)
  /\ UNCHANGED <<bucket, page, url, page_info, t0, t1, stamps, overlap>>

\* the object store finds the blob p is about to delete
DeleteAccepted(p) == image_name[p] \in bucket

\* lines 207-208: delete_blob, then time.time()
DeleteOk(p, d) ==
  /\ pc[p] = "PLACED"
  /\ DeleteAccepted(p)
  /\ Called(p, "delete_blob", "ok", d)
  /\ bucket' = delete_blob(bucket, image_name[p])
  /\ t1' = [t1 EXCEPT ![p] = time_image_is_no_longer_accessible(now, now')]
  /\ stamps' = [stamps EXCEPT ![p].del_call = now, ![p].del_ret = now']
  /\ UNCHANGED <<page, url, page_info, body, t0, overlap>>

DeleteRejected(p, d) ==
  /\ pc[p] = "PLACED"
  /\ ~DeleteAccepted(p)
  /\ Called(p, "delete_blob", "rejected", d)
  /\ stamps' = [stamps EXCEPT ![p].del_call = now]
  /\ UNCHANGED <<bucket, page, url, page_info, body, t0, t1, overlap>>

DeleteFault(p, d) ==
  /\ pc[p] = "PLACED"
  /\ Called(p, "delete_blob", "fault", d)
  /\ stamps' = [stamps EXCEPT ![p].del_call = now]
  /\ UNCHANGED <<bucket, page, url, page_info, body, t0, t1, overlap>>

\* a call that returns
Returns(p, d) ==
  \/ UploadOk(p, d)
  \/ SignOk(p, d)
  \/ GetOk(p, d)
  \/ BatchOk(p, d)
  \/ DeleteOk(p, d)

\* a call the service refuses
Refused(p, d) ==
  \/ BatchRejected(p, d)
  \/ DeleteRejected(p, d)

\* a call that raises for a reason outside the program
Faults(p, d) ==
  \/ UploadFault(p, d)
  \/ SignFault(p, d)
  \/ GetFault(p, d)
  \/ BatchFault(p, d)
  \/ DeleteFault(p, d)

\* the invocations interleaved call by call; durations left out
Next == \E p \in Procs : Returns(p, 0) \/ Refused(p, 0) \/ Faults(p, 0)

Spec == Init /\ [][Next]_vars

\* one invocation alone, with the clock running: every call takes 0..MaxTick
TimedNext == \E d \in 0..MaxTick : Returns(1, d) \/ Faults(1, d)

TimedSpec == Init /\ [][TimedNext]_vars

\* =================================================================== claims
\* the orchestrator's state: the page read lies inside the placement step
State(p) == IF pc[p] = "PAGE_READ" THEN "URL_SIGNED" ELSE pc[p]

Terminal == {"CLEANED_UP", "FAILED"}

Made(p, c) == \E i \in 1..Len(calls[p]) : calls[p][i].call = c

Ended(p, c, how) == \E i \in 1..Len(calls[p]) : calls[p][i] = [call |-> c, outcome |-> how]

CallCount(p, c) == Cardinality({i \in 1..Len(calls[p]) : calls[p][i].call = c})

Refusal(p) == \E i \in 1..Len(calls[p]) : calls[p][i].outcome = "rejected"

\* no other invocation has p's image name
Exclusive(p) == \A q \in Procs \ {p} : image_name[q] # image_name[p]

\* the ids the page read of p returned, taken from the response itself
SnapshotIds(p) ==
  IF "pageElements" \in DOMAIN page_info[p]
  THEN {page_info[p].pageElements[k].objectId : k \in 1..Len(page_info[p].pageElements)}
  ELSE {}

IsDelete(r, id) == "deleteObject" \in DOMAIN r /\ r.deleteObject.objectId = id

IsCreate(r, id) == "createImage" \in DOMAIN r /\ r.createImage.objectId = id

\* C1: two placements with the same image name on the same page, one after the
\* other: the service refuses neither, and once both batches are applied the
\* page holds exactly one element with that id.
C1_IdempotentPlacement ==
  \A p, q \in Procs :
    (p # q /\ image_name[p] = image_name[q] /\ ~overlap
       /\ Made(p, "batchUpdate") /\ Made(q, "batchUpdate"))
    => /\ ~Ended(p, "batchUpdate", "rejected")
       /\ ~Ended(q, "batchUpdate", "rejected")
       /\ (Ended(p, "batchUpdate", "ok") /\ Ended(q, "batchUpdate", "ok")
             => CountId(page, image_name[p]) = 1)

\* two placements in sequence on a page that did not hold the id: the first
\* only creates, the second deletes and creates
C1_Witness ==
  \E p, q \in Procs :
    /\ p # q /\ image_name[p] = image_name[q] /\ ~overlap
    /\ Ended(p, "batchUpdate", "ok") /\ Ended(q, "batchUpdate", "ok")
    /\ image_name[p] \notin IdsOf(page0)
    /\ Len(body[p]) = 1 /\ Len(body[q]) = 2
    /\ CountId(page, image_name[p]) = 1

\* C2: when the image name is in the page snapshot, the submitted batch holds
\* a deleteObject for it at a strictly earlier position than the createImage
\* for it; the createImage is always the last request of the batch.
C2_DeletionOrdering ==
  \A p \in Procs :
    body[p] # <<>> =>
      /\ IsCreate(body[p][Len(body[p])], image_name[p])
      /\ image_name[p] \in SnapshotIds(p) =>
           \E i, j \in 1..Len(body[p]) :
             /\ i < j
             /\ IsDelete(body[p][i], image_name[p])
             /\ IsCreate(body[p][j], image_name[p])

C2_Witness ==
  \E p \in Procs :
    /\ image_name[p] \in SnapshotIds(p)
    /\ Len(body[p]) = 2
    /\ Ended(p, "batchUpdate", "ok")

\* C3: when the page read or the batch call raises, delete_blob is not invoked
\* in that invocation, the run is FAILED, and the uploaded object (no other
\* invocation using its name) is still in the bucket.
C3_NoCleanupAfterPlacementFailure ==
  \A p \in Procs :
    (\E i \in 1..Len(calls[p]) :
        calls[p][i].call \in {"get", "batchUpdate"} /\ calls[p][i].outcome # "ok")
    => /\ ~Made(p, "delete_blob")
       /\ pc[p] = "FAILED"
       /\ Exclusive(p) => image_name[p] \in bucket

C3_Witness ==
  \E p \in Procs :
    /\ Exclusive(p)
    /\ image_name[p] \notin bucket0
    /\ Ended(p, "batchUpdate", "fault")
    /\ pc[p] = "FAILED"
    /\ image_name[p] \in bucket

OrchestratorOrder ==
  {<<"START", "UPLOADED">>, <<"UPLOADED", "URL_SIGNED">>,
   <<"URL_SIGNED", "PLACED">>, <<"PLACED", "CLEANED_UP">>}

C4_Step(p) ==
  /\ \/ State(p)' = State(p)
     \/ <<State(p), State(p)'>> \in OrchestratorOrder
     \/ State(p) \notin Terminal /\ State(p)' = "FAILED"
  /\ State(p) \in Terminal => calls'[p] = calls[p] /\ pc'[p] = pc[p]
  /\ \A i, j \in 1..Len(calls'[p]) : i < j => calls'[p][i].call # calls'[p][j].call
  /\ \A i \in 1..Len(calls'[p]) :
       calls'[p][i].outcome # "ok" => i = Len(calls'[p]) /\ State(p)' = "FAILED"

\* C4: every step of an invocation keeps its state or moves it one place along
\* START, UPLOADED, URL_SIGNED, PLACED, CLEANED_UP, or from a state that is not
\* terminal to FAILED; a terminal invocation makes no call; no call is made
\* twice; a call that raises is the invocation's last and leaves it FAILED.
C4_OrchestratorOrder == [][\A p \in Procs : C4_Step(p)]_vars

C4_Witness ==
  \E p, q \in Procs :
    /\ pc[p] = "CLEANED_UP" /\ Len(calls[p]) = 5
    /\ pc[q] = "FAILED" /\ Len(calls[q]) = 3

\* C5 as stated: the object is in the bucket only while the invocation is
\* between its upload and its delete call, and delete_blob is called once at
\* most and after the placement (for an invocation whose name no other uses
\* and whose object was not in the bucket at the start).
C5_AsStated ==
  \A p \in Procs :
    (Exclusive(p) /\ image_name[p] \notin bucket0) =>
      /\ image_name[p] \in bucket => State(p) \in {"UPLOADED", "URL_SIGNED", "PLACED"}
      /\ CallCount(p, "delete_blob") <= 1
      /\ Made(p, "delete_blob") => Ended(p, "batchUpdate", "ok")
      /\ pc[p] = "CLEANED_UP" => CallCount(p, "delete_blob") = 1

\* C5 amended: for an invocation whose name no other uses and whose object was
\* not in the bucket at the start, the object is in the bucket exactly from
\* the upload that returned until a delete_blob that returned, a failed run
\* included; delete_blob is called at most once and only after the batch was
\* applied; a run that is CLEANED_UP called it once and left no object.
C5_ObjectLifetime ==
  \A p \in Procs :
    (Exclusive(p) /\ image_name[p] \notin bucket0) =>
      /\ image_name[p] \in bucket <=>
           (Ended(p, "upload_blob", "ok") /\ ~Ended(p, "delete_blob", "ok"))
      /\ CallCount(p, "delete_blob") <= 1
      /\ Made(p, "delete_blob") => Ended(p, "batchUpdate", "ok")
      /\ pc[p] = "CLEANED_UP" =>
           (CallCount(p, "delete_blob") = 1 /\ image_name[p] \notin bucket)
      /\ (pc[p] = "FAILED" /\ ~Made(p, "delete_blob")) =>
           (image_name[p] \in bucket <=> Ended(p, "upload_blob", "ok"))

C5_Witness ==
  \E p, q \in Procs :
    /\ p # q /\ Exclusive(p) /\ Exclusive(q)
    /\ image_name[p] \notin bucket0 /\ image_name[q] \notin bucket0
    /\ pc[p] = "CLEANED_UP" /\ image_name[p] \notin bucket
    /\ pc[q] = "FAILED" /\ Ended(q, "get", "fault") /\ image_name[q] \in bucket

\* C6: the submitted batch holds a deleteObject for the image name exactly when
\* the name is among the ids of the page snapshot, holds exactly one
\* createImage for it and nothing else; a snapshot without elements (the
\* pageElements key missing or empty) gives the createImage alone.
C6_BatchShape ==
  \A p \in Procs :
    body[p] # <<>> =>
      LET dels == {i \in 1..Len(body[p]) : IsDelete(body[p][i], image_name[p])}
          cres == {i \in 1..Len(body[p]) : IsCreate(body[p][i], image_name[p])}
      IN  /\ Cardinality(cres) = 1
          /\ Cardinality(dels) = (IF image_name[p] \in SnapshotIds(p) THEN 1 ELSE 0)
          /\ dels \cup cres = 1..Len(body[p])
          /\ SnapshotIds(p) = {} => Len(body[p]) = 1

\* both shapes of an empty page, and a page with other elements only
C6_Witness ==
  /\ \E p \in Procs : body[p] # <<>> /\ "pageElements" \notin DOMAIN page_info[p]
  /\ \E p \in Procs :
       /\ Len(body[p]) = 1
       /\ "pageElements" \in DOMAIN page_info[p]
       /\ SnapshotIds(p) # {}

\* the final state an invocation reaches when it runs alone
Finished(p) ==
  /\ pc[p] = "CLEANED_UP"
  /\ \A i \in 1..Len(calls[p]) : calls[p][i].outcome = "ok"
  /\ CountId(page, image_name[p]) = 1
  /\ \E i \in 1..Len(page) : page[i] = [objectId |-> image_name[p], src |-> p]
  /\ image_name[p] \notin bucket

\* C7: an invocation whose image name no other invocation uses is, under
\* every interleaving of the invocations' calls, never refused a call; the
\* two calls a service can refuse, the batch and the delete, are accepted
\* whenever it is about to make them; and when it is CLEANED_UP the
\* page holds exactly one element of its id, its own, and its object is
\* deleted: what it reaches when it runs alone.
C7_DistinctNamesSafe ==
  \A p \in Procs :
    Exclusive(p) =>
      /\ ~Refusal(p)
      /\ pc[p] = "PAGE_READ" => BatchAccepted(p)
      /\ pc[p] = "PLACED" => DeleteAccepted(p)
      /\ pc[p] = "CLEANED_UP" => Finished(p)

C7_Witness ==
  /\ overlap
  /\ \E p, q \in Procs : p # q /\ Exclusive(p) /\ Exclusive(q) /\ Finished(p) /\ Finished(q)

\* C8: a call is refused by a service only in an invocation that shares its
\* image name with another one while two invocations were under way at once:
\* no execution of the invocations one after the other has a refused call.
C8_RefusalOnlyByRace ==
  \A p \in Procs : Refusal(p) => (overlap /\ ~Exclusive(p))

\* the race in the batch: both invocations read a page without the id, the
\* first creates the element, the second one's createImage is refused
C8_Witness ==
  \E p, q \in Procs :
    /\ p # q /\ image_name[p] = image_name[q] /\ overlap
    /\ image_name[p] \notin SnapshotIds(p) /\ image_name[q] \notin SnapshotIds(q)
    /\ Ended(p, "batchUpdate", "ok")
    /\ Ended(q, "batchUpdate", "rejected")
    /\ \E i \in 1..Len(page) : page[i] = [objectId |-> image_name[p], src |-> p]

\* C9 as stated: t1 is the time at which delete_blob is invoked.
C9_AsStated ==
  \A p \in Procs :
    pc[p] = "CLEANED_UP" =>
      /\ t1[p] - t0[p] >= 0
      /\ t0[p] = stamps[p].sign_ret
      /\ t1[p] = stamps[p].del_call

\* C9 amended: the reported t1 - t0 is not negative; t0 is the time at which
\* the url generation returned and t1 the time at which delete_blob returned,
\* so the interval holds the whole delete call and none of the upload.
C9_ExposureWindow ==
  \A p \in Procs :
    pc[p] = "CLEANED_UP" =>
      /\ t1[p] - t0[p] >= 0
      /\ t0[p] = stamps[p].sign_ret
      /\ t1[p] = stamps[p].del_ret
      /\ t1[p] - t0[p] = stamps[p].del_ret - stamps[p].sign_ret
      /\ stamps[p].up_ret <= t0[p]

C9_Witness ==
  \E p \in Procs :
    /\ pc[p] = "CLEANED_UP"
    /\ 0 < stamps[p].up_ret
    /\ stamps[p].up_ret < stamps[p].sign_ret
    /\ stamps[p].del_call < stamps[p].del_ret

\* the image names of the invocations that have submitted a batch
PlacedNames == {image_name[p] : p \in {q \in Procs : body[q] # <<>>}}

\* C10: the elements whose id is not the image name of a placement are the
\* ones the page had at the start, unchanged and in the same order.
C10_Frame ==
  SelectIds(page, ElementIds \ PlacedNames) = SelectIds(page0, ElementIds \ PlacedNames)

\* a replacement on a page whose first element is another one
C10_Witness ==
  \E p \in Procs :
    /\ Len(page0) = 2
    /\ page0[1].objectId \notin PlacedNames
    /\ page0[2].objectId = image_name[p]
    /\ Len(body[p]) = 2
    /\ Ended(p, "batchUpdate", "ok")
    /\ page[1] = page0[1]

====
